---- MODULE Spec2Model ----
(***************************************************************************)
(* A model of vrpTest.py: the instance generator create_data_model, one    *)
(* solver run solve_vrp (construction, local search under a time budget,   *)
(* route extraction) and the experiment sweep of main.                     *)
(*                                                                         *)
(* Five specifications share the variables:                                *)
(*   SpecData   create_data_model, demand by demand, then the capacities   *)
(*   Spec       one call of solve_vrp on an instance drawn from Instances  *)
(*   SpecLive   the same call, on fewer instances, that keeps running      *)
(*   SpecExtract  lines 168-180 of solve_vrp on any Solution               *)
(*   SpecSweep  the double loop of main over the strategy pairs            *)
(* Optional values (Python's None) are sequences of length 0 or 1.         *)
(***************************************************************************)
EXTENDS Integers, Sequences, FiniteSets, TLC

VARIABLES
    pc,                      \* position in the program
    data,                    \* the dict built by create_data_model
    first_solution_strategy, \* solve_vrp's second parameter
    metaheuristic,           \* solve_vrp's third parameter
    unrouted,                \* construction: customers not yet placed
    working,                 \* the engine's working Solution
    best,                    \* the engine's best-so-far Solution
    search_state,            \* SearchState: tabu list, penalties, temperature
    elapsed,                 \* wall-clock time since start_time
    ls_state,                \* Idle, Running, Improved, TimedOut, Converged
    solution,                \* what SolveWithParameters returned
    vehicle_id,              \* route extraction: loop variable
    index,                   \* route extraction: current routing index
    route,                   \* route extraction: the route being built
    routes,                  \* route extraction: the routes built so far
    result,                  \* what solve_vrp returned
    pair,                    \* main: position of the sweep in the pairs
    results                  \* main: the result records

vars == <<pc, data, first_solution_strategy, metaheuristic, unrouted, working,
          best, search_state, elapsed, ls_state, solution, vehicle_id, index,
          route, routes, result, pair, results>>

----------------------------------------------------------------------------
(* Bounds of the model.                                                    *)

\* the instances handed to solve_vrp in Spec
MaxCustomers == 3
MaxVehicles  == 2
MaxDemand    == 2
MaxCapacity  == 3
\* the largest step of the wall clock between two elapsed-time checks
MaxTick      == 2
\* the strategies and metaheuristics main sweeps in SpecSweep, the first ones
\* of its two dicts (12 and 6 in the source)
NumStrategies     == 2
NumMetaheuristics == 2

----------------------------------------------------------------------------
(* Helpers.                                                                *)

None == <<>>
Some(x) == <<x>>

\* the sum of the values f(1) .. f(k)
RECURSIVE SumTo(_, _)
SumTo(f(_), k) == IF k = 0 THEN 0 ELSE f(k) + SumTo(f, k - 1)

SumSeq(s) == LET at(k) == s[k] IN SumTo(at, Len(s))

Least(values) == CHOOSE x \in values : \A y \in values : x <= y

RECURSIVE BitLen(_)
BitLen(n) == IF n = 0 THEN 0 ELSE 1 + BitLen(n \div 2)

----------------------------------------------------------------------------
(* IEEE-754 double arithmetic of create_data_model, line 43.               *)
(* A double constant is <<a2, a1, a0, f>>: the 53-bit significand          *)
(* a2*2^36 + a1*2^18 + a0 scaled by 2^-f.                                  *)

Half         == <<65536, 0, 0, 53>>            \* 0.5  = 0x1.0000000000000p-1
ThirtyFive   == <<91750, 104857, 157286, 54>>  \* 0.35 = 0x1.6666666666666p-2
Fifteen      == <<78643, 52428, 209715, 55>>   \* 0.15 = 0x1.3333333333333p-3

\* t * c for an int t >= 0 and a double c, as the double the multiplication
\* returns: the exact product in limbs of 18 bits, rounded to 53 bits (round
\* half to even).  The result is its integer part and whether a fraction is left.
MulDouble(t, c) ==
    LET B     == 2^18
        r0    == t * c[3]
        r1    == t * c[2] + (r0 \div B)
        p0    == r0 % B
        p1    == r1 % B
        p2    == t * c[1] + (r1 \div B)
        s     == IF BitLen(p2) > 17 THEN BitLen(p2) - 17 ELSE 0
        rem   == p0 % (2^s)
        odd   == (p0 \div (2^s)) % 2 = 1
        up    == s > 0 /\ (2 * rem > 2^s \/ (2 * rem = 2^s /\ odd))
        q0raw == p0 - rem + (IF up THEN 2^s ELSE 0)
        q0    == q0raw % B
        q1raw == p1 + (q0raw \div B)
        q1    == q1raw % B
        q2    == p2 + (q1raw \div B)
        f2    == c[4] - 36
    IN  [whole |-> q2 \div (2^f2),
         frac  |-> (q2 % (2^f2) # 0) \/ q1 # 0 \/ q0 # 0]

\* math.ceil of a non-negative double
Ceil(x) == x.whole + (IF x.frac THEN 1 ELSE 0)

\* int() of a non-negative double: truncation
Trunc(x) == x.whole

\* line 43 with int() in the place of math.ceil
VehicleCapacitiesTruncated(total_demand) ==
    <<Trunc(MulDouble(total_demand, Half)),
      Trunc(MulDouble(total_demand, ThirtyFive)),
      Trunc(MulDouble(total_demand, Fifteen))>>

\* line 43
VehicleCapacities(total_demand) ==
    <<Ceil(MulDouble(total_demand, Half)),
      Ceil(MulDouble(total_demand, ThirtyFive)),
      Ceil(MulDouble(total_demand, Fifteen))>>

----------------------------------------------------------------------------
(* The Problem Model, create_data_model lines 23-53.                       *)

NumVehicles     == 3     \* data['num_vehicles']
Depot           == 0     \* data['depot']
MaxRandomDemand == 5     \* random.randint(1, 5)

NumLocations    == 50    \* range(50)

\* line 27: the coordinates random.randint(0, 300) draws after random.seed(42)
Coordinates ==
    <<<<57, 12>>, <<140, 125>>, <<114, 71>>, <<52, 279>>, <<44, 216>>, <<16, 15>>,
      <<47, 111>>, <<119, 258>>, <<13, 287>>, <<101, 279>>, <<214, 112>>, <<229, 142>>,
      <<3, 81>>, <<216, 174>>, <<142, 79>>, <<110, 172>>, <<52, 47>>, <<194, 49>>,
      <<183, 176>>, <<135, 22>>, <<235, 274>>, <<63, 193>>, <<40, 282>>, <<150, 185>>,
      <<295, 98>>, <<35, 23>>, <<116, 148>>, <<40, 119>>, <<51, 194>>, <<142, 232>>,
      <<186, 83>>, <<189, 181>>, <<107, 136>>, <<36, 87>>, <<273, 125>>, <<83, 236>>,
      <<194, 138>>, <<285, 112>>, <<166, 28>>, <<117, 16>>, <<161, 205>>, <<137, 33>>,
      <<108, 290>>, <<161, 108>>, <<255, 202>>, <<234, 73>>, <<135, 71>>, <<126, 287>>,
      <<275, 134>>, <<299, 219>>>>

\* line 39: the demands random.randint(1, 5) draws next
SeededDemands ==
    <<5, 4, 3, 2, 2, 5, 4, 1, 1, 1, 2, 2, 4, 5, 1, 4, 4, 5, 4, 5, 3, 5, 1, 1, 5,
      3, 3, 1, 3, 4, 2, 4, 1, 3, 5, 2, 5, 1, 3, 5, 5, 2, 2, 3, 2, 5, 5, 1, 5>>

\* int(n ** 0.5), the integer square root, by bisection
RECURSIVE ISqrtBetween(_, _, _)
ISqrtBetween(n, lo, hi) ==
    IF lo = hi THEN lo
    ELSE LET mid == (lo + hi + 1) \div 2
         IN  IF mid * mid <= n THEN ISqrtBetween(n, mid, hi)
                               ELSE ISqrtBetween(n, lo, mid - 1)

ISqrt(n) == ISqrtBetween(n, 0, IF n < 1024 THEN n ELSE 1024)

\* lines 28-34: int(((x1 - x2)**2 + (y1 - y2)**2)**0.5)
DistanceMatrix(locations) ==
    [i \in 1..Len(locations) |->
        [j \in 1..Len(locations) |->
            ISqrt((locations[i][1] - locations[j][1]) * (locations[i][1] - locations[j][1])
                + (locations[i][2] - locations[j][2]) * (locations[i][2] - locations[j][2]))]]

\* Everything that is unused outside solve_vrp and main keeps these values.
IdleSolve ==
    /\ first_solution_strategy = "" /\ metaheuristic = ""
    /\ unrouted = {} /\ working = <<>> /\ best = <<>>
    /\ search_state = <<>> /\ elapsed = 0 /\ ls_state = "Idle"
    /\ solution = None /\ vehicle_id = 0 /\ index = 0
    /\ route = <<>> /\ routes = <<>> /\ result = None

solveVars == <<first_solution_strategy, metaheuristic, unrouted, working, best,
               search_state, elapsed, ls_state, solution, vehicle_id, index,
               route, routes, result>>

\* create_data_model after line 36, before the demands are drawn
InitData ==
    /\ pc = "demands"
    /\ data = [locations          |-> SubSeq(Coordinates, 1, NumLocations),
               distance_matrix    |-> DistanceMatrix(SubSeq(Coordinates, 1, NumLocations)),
               num_vehicles       |-> NumVehicles,
               depot              |-> Depot,
               demands            |-> <<0>>,
               vehicle_capacities |-> <<>>]
    /\ IdleSolve
    /\ pair = 0 /\ results = <<>>

\* The demand lists followed: the list the seed gives, and the lists that
\* never decrease and hold at most two values, one apart; their totals are
\* all the totals there are.
Drawn(demands) ==
    \/ demands = SubSeq(<<0>> \o SeededDemands, 1, Len(demands))
    \/ /\ \A k \in 2..(Len(demands) - 1) : demands[k] <= demands[k + 1]
       /\ Len(demands) >= 2 => demands[Len(demands)] - demands[2] <= 1

\* line 39: one random.randint(1, 5) of the list comprehension
RandomDemand ==
    /\ pc = "demands"
    /\ Len(data.demands) < Len(data.locations)
    /\ \E d \in 1..MaxRandomDemand :
          /\ Drawn(Append(data.demands, d))
          /\ data' = [data EXCEPT !.demands = Append(@, d)]
    /\ UNCHANGED <<pc, solveVars, pair, results>>

\* lines 41-53: the capacities from the total demand, and the return
Capacities ==
    /\ pc = "demands"
    /\ Len(data.demands) = Len(data.locations)
    /\ data' = [data EXCEPT !.vehicle_capacities = VehicleCapacities(SumSeq(data.demands))]
    /\ pc' = "created"
    /\ UNCHANGED <<solveVars, pair, results>>

NextData == RandomDemand \/ Capacities

SpecData == InitData /\ [][NextData]_vars

----------------------------------------------------------------------------
(* solve_vrp: the routing index manager, the callbacks and the capacity    *)
(* dimension, lines 131-154.                                               *)

NumNodes(d) == Len(d.distance_matrix)

\* RoutingIndexManager(num_nodes, num_vehicles, depot): node i has index i,
\* vehicle 0 starts at the depot's own index and vehicle v > 0 at
\* num_nodes + v - 1; vehicle v ends at num_nodes + num_vehicles - 1 + v.
Start(d, v) == IF v = 0 THEN d.depot ELSE NumNodes(d) + v - 1
End(d, v) == NumNodes(d) + d.num_vehicles - 1 + v
IsEnd(d, i) == i >= NumNodes(d) + d.num_vehicles - 1
IndexToNode(d, i) == IF i < NumNodes(d) THEN i ELSE d.depot
NodeToIndex(d, n) == n

\* lines 135-136 with the two indices exchanged
distance_callback_transposed(d, from_index, to_index) ==
    d.distance_matrix[IndexToNode(d, to_index) + 1][IndexToNode(d, from_index) + 1]

\* lines 135-136
distance_callback(d, from_index, to_index) ==
    d.distance_matrix[IndexToNode(d, from_index) + 1][IndexToNode(d, to_index) + 1]

\* lines 142-143
demand_callback(d, from_index) == d.demands[IndexToNode(d, from_index) + 1]

\* lines 148-154 with one capacity, the first, for the whole fleet
CapacityOfFirstVehicle(d, v) == d.vehicle_capacities[1]

\* lines 148-154: AddDimensionWithVehicleCapacity, one capacity per vehicle
Capacity(d, v) == d.vehicle_capacities[v + 1]

time_limit == 5     \* search_parameters.time_limit.seconds

----------------------------------------------------------------------------
(* The Problem Model's accessors and the Solution Representation.          *)

Vehicles(d) == 0..(d.num_vehicles - 1)
Customers(d) == (0..(NumNodes(d) - 1)) \ {d.depot}
Distance(d, i, j) == distance_callback(d, NodeToIndex(d, i), NodeToIndex(d, j))
Demand(d, i) == demand_callback(d, NodeToIndex(d, i))

\* the distance along a sequence of nodes, arc by arc
PathCost(d, nodes) ==
    LET arc(k) == Distance(d, nodes[k], nodes[k + 1])
    IN  IF Len(nodes) < 2 THEN 0 ELSE SumTo(arc, Len(nodes) - 1)

\* the demand of a sequence of nodes
PathDemand(d, nodes) ==
    LET at(k) == Demand(d, nodes[k]) IN SumTo(at, Len(nodes))

RECURSIVE Reverse(_)
Reverse(s) ==
    IF Len(s) = 0 THEN <<>>
    ELSE <<s[Len(s)]>> \o Reverse(SubSeq(s, 1, Len(s) - 1))

\* A Route: its nodes, depot first and last, its cached demand and distance.
EmptyRoute(d) ==
    [nodes |-> <<d.depot, d.depot>>, load |-> 0,
     cost |-> Distance(d, d.depot, d.depot)]

\* A Solution: one Route per vehicle; vehicle v's is sol[v + 1].
RECURSIVE EmptyRoutes(_, _)
EmptyRoutes(d, n) == IF n = 0 THEN <<>> ELSE Append(EmptyRoutes(d, n - 1), EmptyRoute(d))

EmptySolution(d) == EmptyRoutes(d, d.num_vehicles)

\* Solution cost = sum of Route costs
SolutionCost(sol) == LET at(v) == sol[v].cost IN SumTo(at, Len(sol))

Shape(sol) == [v \in 1..Len(sol) |-> sol[v].nodes]

Feasible(d, sol) == \A v \in Vehicles(d) : sol[v + 1].load <= Capacity(d, v)

\* The positions i..j of a route replaced by the nodes x (j = i - 1 inserts
\* before i), the caches kept up to date from the arcs and demands touched.
SpliceRoute(d, r, i, j, x) ==
    [nodes |-> SubSeq(r.nodes, 1, i - 1) \o x \o SubSeq(r.nodes, j + 1, Len(r.nodes)),
     load  |-> r.load - PathDemand(d, SubSeq(r.nodes, i, j)) + PathDemand(d, x),
     cost  |-> r.cost - PathCost(d, SubSeq(r.nodes, i - 1, j + 1))
                      + PathCost(d, <<r.nodes[i - 1]>> \o x \o <<r.nodes[j + 1]>>)]

Splice(d, sol, v, i, j, x) == [sol EXCEPT ![v + 1] = SpliceRoute(d, @, i, j, x)]

\* the customer positions of vehicle v's route
Positions(sol, v) == 2..(Len(sol[v + 1].nodes) - 1)

----------------------------------------------------------------------------
(* Move Generator: the Solutions one Move away.                            *)

OrOptMaxLength == 3

\* the segments of vehicle v's route of 1..OrOptMaxLength customers
Segments(sol, v) ==
    {<<i, j>> \in Positions(sol, v) \X Positions(sol, v) :
        i <= j /\ j - i + 1 <= OrOptMaxLength}

\* Relocate (one customer) and Or-opt (up to three): a segment taken out and
\* put back at another position of the same or of another route.
OrOptMoves(d, sol) ==
    UNION {UNION {
        LET seg == SubSeq(sol[v1 + 1].nodes, s[1], s[2])
            cut == Splice(d, sol, v1, s[1], s[2], <<>>)
        IN  UNION {{Splice(d, cut, v2, p, p - 1, seg) :
                        p \in 2..Len(cut[v2 + 1].nodes)} : v2 \in Vehicles(d)}
        : s \in Segments(sol, v1)} : v1 \in Vehicles(d)}

\* Swap: two customers exchange their positions.
SwapMoves(d, sol) ==
    UNION {UNION {UNION {
        {LET x == sol[v1 + 1].nodes[i]
             y == sol[v2 + 1].nodes[k]
             one == Splice(d, sol, v1, i, i, <<y>>)
         IN  Splice(d, one, v2, k, k, <<x>>) : k \in Positions(sol, v2)}
        : i \in Positions(sol, v1)} : v2 \in Vehicles(d)} : v1 \in Vehicles(d)}

\* 2-opt: a segment of one route reversed.
TwoOptMoves(d, sol) ==
    UNION {{Splice(d, sol, v, s[1], s[2],
                   Reverse(SubSeq(sol[v + 1].nodes, s[1], s[2]))) :
                s \in {t \in Positions(sol, v) \X Positions(sol, v) : t[1] < t[2]}}
           : v \in Vehicles(d)}

\* Cross-exchange: two segments of two different routes exchanged.
CrossExchangeMoves(d, sol) ==
    UNION {UNION {
        {LET one == Splice(d, sol, v1, st[1][1], st[1][2],
                           SubSeq(sol[v2 + 1].nodes, st[2][1], st[2][2]))
         IN  Splice(d, one, v2, st[2][1], st[2][2],
                    SubSeq(sol[v1 + 1].nodes, st[1][1], st[1][2]))
         : st \in Segments(sol, v1) \X Segments(sol, v2)}
        : v2 \in Vehicles(d) \ {v1}} : v1 \in Vehicles(d)}

\* Every capacity-feasible Move's outcome; a Move changing nothing is none.
Neighbors(d, sol) ==
    {n \in OrOptMoves(d, sol) \cup SwapMoves(d, sol) \cup TwoOptMoves(d, sol)
           \cup CrossExchangeMoves(d, sol) :
        Shape(n) # Shape(sol) /\ Feasible(d, n)}

----------------------------------------------------------------------------
(* The instances and the strategies a call of solve_vrp is given.          *)

\* the locations of the instances solve_vrp is run on
GridLocations ==
    <<<<0, 0>>, <<3, 0>>, <<3, 4>>, <<0, 4>>, <<6, 8>>, <<8, 0>>, <<1, 1>>,
      <<5, 12>>>>

\* a distance matrix that is not symmetric
AsymmetricMatrix(locations) ==
    [i \in 1..Len(locations) |->
        [j \in 1..Len(locations) |->
            IF i = j THEN 0
            ELSE DistanceMatrix(locations)[i][j] + ((2 * i + j) % 3)]]

Instance(locations, matrix, demands, capacities) ==
    [locations          |-> locations,
     distance_matrix    |-> matrix,
     num_vehicles       |-> Len(capacities),
     depot              |-> Depot,
     demands            |-> <<0>> \o demands,
     vehicle_capacities |-> capacities]

\* the instances of 2 to max_customers customers and 1 to max_vehicles vehicles
Instances(max_customers, max_vehicles) ==
    UNION {UNION {
        LET locations == SubSeq(GridLocations, 1, n + 1)
        IN  {Instance(locations, m, dem, cap) :
                m \in {DistanceMatrix(locations), AsymmetricMatrix(locations)},
                dem \in [1..n -> 1..MaxDemand],
                cap \in [1..nv -> 1..MaxCapacity]}
        : nv \in 1..max_vehicles} : n \in 2..max_customers}

\* main, lines 198-219: the strategies, by the rule of the design they follow
CheapestArcStrategies ==
    {"AUTOMATIC", "PATH_CHEAPEST_ARC", "GLOBAL_CHEAPEST_ARC", "LOCAL_CHEAPEST_ARC"}
CheapestInsertionStrategies ==
    {"PARALLEL_CHEAPEST_INSERTION", "SEQUENTIAL_CHEAPEST_INSERTION",
     "LOCAL_CHEAPEST_INSERTION", "LOCAL_CHEAPEST_COST_INSERTION"}
\* the other strategies may make any feasible insertion
GreedyDescent == {"GREEDY_DESCENT"}
GuidedLocalSearch == {"AUTOMATIC", "GUIDED_LOCAL_SEARCH"}
SimulatedAnnealing == {"SIMULATED_ANNEALING"}
TabuSearch == {"TABU_SEARCH", "GENERIC_TABU_SEARCH"}

\* The pairs <<first_solution_strategy, metaheuristic>> that are run: every
\* metaheuristic after SAVINGS, whose rule allows every insertion the other
\* rules make, and the two other rules before one metaheuristic each.
RunPairs ==
    ({"SAVINGS"} \X {"GREEDY_DESCENT", "GUIDED_LOCAL_SEARCH", "SIMULATED_ANNEALING",
                     "TABU_SEARCH"})
    \cup {<<"PATH_CHEAPEST_ARC", "GREEDY_DESCENT">>,
          <<"PARALLEL_CHEAPEST_INSERTION", "TABU_SEARCH">>}

----------------------------------------------------------------------------
(* Construction Heuristics.                                                *)

\* <<c, v, p>>: the unrouted customer c fits vehicle v and goes before
\* position p of its route
Insertions(d, sol, U) ==
    UNION {UNION {
        {<<c, v, p>> : p \in 2..Len(sol[v + 1].nodes)}
        : v \in {w \in Vehicles(d) : sol[w + 1].load + Demand(d, c) <= Capacity(d, w)}}
        : c \in U}

Insert(d, sol, ins) == Splice(d, sol, ins[2], ins[3], ins[3] - 1, <<ins[1]>>)

LexLeq(a, b) ==
    \E k \in 1..(Len(a) + 1) :
        /\ \A m \in 1..(k - 1) : a[m] = b[m]
        /\ k <= Len(a) => a[k] < b[k]

\* the key a rule minimises, ties broken by customer, vehicle and position
ArcKey(d, sol, ins) ==
    <<Distance(d, sol[ins[2] + 1].nodes[ins[3] - 1], ins[1]), ins[1], ins[2], ins[3]>>
InsertionKey(d, sol, ins) ==
    <<SolutionCost(Insert(d, sol, ins)) - SolutionCost(sol), ins[1], ins[2], ins[3]>>

\* the insertions the strategy may make next
ConstructionChoices(d, strategy, sol, U) ==
    LET all  == Insertions(d, sol, U)
        ends == {ins \in all : ins[3] = Len(sol[ins[2] + 1].nodes)}
    IN  IF strategy \in CheapestArcStrategies
        THEN {ins \in ends : \A o \in ends : LexLeq(ArcKey(d, sol, ins), ArcKey(d, sol, o))}
        ELSE IF strategy \in CheapestInsertionStrategies
        THEN {ins \in all :
                \A o \in all : LexLeq(InsertionKey(d, sol, ins), InsertionKey(d, sol, o))}
        ELSE all

----------------------------------------------------------------------------
(* Local Search Engine: the SearchState and the strategies' choices.       *)

TabuTenure         == 1
InitialTemperature == 2
TemperatureFloor   == 1
PenaltyIncrement   == 2

Arcs(d) == (0..(NumNodes(d) - 1)) \X (0..(NumNodes(d) - 1))

FreshSearchState(d, sol) ==
    [tabu         |-> <<>>,
     penalty      |-> [a \in Arcs(d) |-> 0],
     temperature  |-> InitialTemperature,
     initial_cost |-> SolutionCost(sol)]

PathPenalty(penalty, nodes) ==
    LET arc(k) == penalty[<<nodes[k], nodes[k + 1]>>]
    IN  IF Len(nodes) < 2 THEN 0 ELSE SumTo(arc, Len(nodes) - 1)

SolutionPenalty(penalty, sol) ==
    LET at(v) == PathPenalty(penalty, sol[v].nodes) IN SumTo(at, Len(sol))

\* guided local search's internal cost: true distance + the penalties
AugmentedCost(penalty, sol) == SolutionCost(sol) + SolutionPenalty(penalty, sol)

SolutionArcs(sol) ==
    UNION {{<<sol[v].nodes[k], sol[v].nodes[k + 1]>> : k \in 1..(Len(sol[v].nodes) - 1)}
           : v \in 1..Len(sol)}

\* the arcs of the costliest edges of the Solution
CostliestArcs(d, sol) ==
    LET arcs == SolutionArcs(sol)
        most == -Least({-Distance(d, a[1], a[2]) : a \in arcs})
    IN  {a \in arcs : Distance(d, a[1], a[2]) = most}

\* the working Solution taken for the best one, whatever it costs
KeepWorking(b, w) == w

\* the best-cost Solution seen
UpdateBest(b, w) == IF SolutionCost(w) < SolutionCost(b) THEN w ELSE b

\* the clock, read again after a step that took dt
Clock(t, dt) == t + dt

Cheapest(S) ==
    LET least == Least({SolutionCost(n) : n \in S})
    IN  {n \in S : SolutionCost(n) = least}

TabuShapes(tabu) == {tabu[k].shape : k \in 1..Len(tabu)}

\* one iteration older; the entries whose tenure is over leave the list
Age(tabu) ==
    SelectSeq([k \in 1..Len(tabu) |-> [tabu[k] EXCEPT !.ttl = @ - 1]],
              LAMBDA e : e.ttl > 0)

----------------------------------------------------------------------------
(* solve_vrp, lines 114-180.                                               *)

mainVars == <<pair, results>>
extractVars == <<vehicle_id, index, route, routes>>

\* solve_vrp entered and set up (lines 131-163): SolveWithParameters starts
\* Construction on an empty Solution
Entered(instances) ==
    /\ pc = "construct"
    /\ data \in instances
    /\ \E p \in RunPairs :
          first_solution_strategy = p[1] /\ metaheuristic = p[2]
    /\ unrouted = Customers(data)
    /\ working = EmptySolution(data)
    /\ best = <<>>
    /\ search_state = <<>>
    /\ elapsed = 0
    /\ ls_state = "Idle"
    /\ solution = None
    /\ vehicle_id = 0 /\ index = 0 /\ route = <<>> /\ routes = <<>>
    /\ result = None
    /\ pair = 0 /\ results = <<>>

Init == Entered(Instances(MaxCustomers, MaxVehicles))

\* SolveWithParameters returns (line 164): the engine's state is discarded,
\* line 165 reads the clock and line 168 tests the solution
Returns(sol, state) ==
    /\ solution' = sol
    /\ ls_state' = state
    /\ working' = <<>>
    /\ best' = <<>>
    /\ search_state' = <<>>
    /\ unrouted' = {}
    /\ pc' = "if_solution"
    /\ UNCHANGED <<data, first_solution_strategy, metaheuristic, elapsed,
                   extractVars, result, mainVars>>

\* Construction places one more customer
ConstructInsert ==
    /\ pc = "construct"
    /\ unrouted # {}
    /\ \E ins \in ConstructionChoices(data, first_solution_strategy, working, unrouted) :
          /\ working' = Insert(data, working, ins)
          /\ unrouted' = unrouted \ {ins[1]}
    /\ UNCHANGED <<pc, data, first_solution_strategy, metaheuristic, best,
                   search_state, elapsed, ls_state, solution, extractVars,
                   result, mainVars>>

\* NoFeasibleConstruction: a customer is left and fits nowhere
ConstructFail ==
    /\ pc = "construct"
    /\ unrouted # {}
    /\ ConstructionChoices(data, first_solution_strategy, working, unrouted) = {}
    /\ Returns(None, "Idle")

\* Construction done: Local Search is entered with a fresh SearchState
ConstructDone ==
    /\ pc = "construct"
    /\ unrouted = {}
    /\ best' = working
    /\ search_state' = FreshSearchState(data, working)
    /\ ls_state' = "Running"
    /\ pc' = "search"
    /\ UNCHANGED <<data, first_solution_strategy, metaheuristic, unrouted,
                   working, elapsed, solution, extractVars, result, mainVars>>

\* what an iteration of the search leaves alone
IterationFrame ==
    UNCHANGED <<pc, data, first_solution_strategy, metaheuristic, unrouted,
                ls_state, solution, extractVars, result, mainVars>>

\* the search going on with no look at the clock
SearchingPastLimit == pc = "search"

\* the search goes on while the time limit has not passed
Searching == pc = "search" /\ elapsed < time_limit

\* the first elapsed-time check past the deadline
TimeOut ==
    /\ pc = "search"
    /\ elapsed >= time_limit
    /\ Returns(Some(best), "TimedOut")

\* Greedy descent: the best improving Move; Converged when there is none
GreedyIteration ==
    /\ Searching
    /\ metaheuristic \in GreedyDescent
    /\ LET now == SolutionCost(working)
           improving == {n \in Neighbors(data, working) : SolutionCost(n) < now}
       IN  IF improving = {}
           THEN Returns(Some(best), "Converged")
           ELSE /\ \E n \in Cheapest(improving), dt \in 1..MaxTick :
                      /\ working' = n
                      /\ best' = UpdateBest(best, n)
                      /\ elapsed' = Clock(elapsed, dt)
                /\ UNCHANGED search_state
                /\ IterationFrame

\* Guided local search: the best Move by augmented cost; at a local optimum
\* of the augmented cost the costliest arcs of the Solution are penalised
GuidedIteration ==
    /\ Searching
    /\ metaheuristic \in GuidedLocalSearch
    /\ LET aug(n) == AugmentedCost(search_state.penalty, n)
           now == aug(working)
           improving == {n \in Neighbors(data, working) : aug(n) < now}
           least == Least({aug(n) : n \in improving})
           costliest == CostliestArcs(data, working)
       IN  IF improving = {}
           THEN /\ search_state' =
                      [search_state EXCEPT !.penalty =
                          [a \in Arcs(data) |->
                              IF a \in costliest THEN @[a] + PenaltyIncrement
                              ELSE @[a]]]
                /\ \E dt \in 1..MaxTick : elapsed' = Clock(elapsed, dt)
                /\ UNCHANGED <<working, best>>
           ELSE /\ \E n \in {m \in improving : aug(m) = least}, dt \in 1..MaxTick :
                      /\ working' = n
                      /\ best' = UpdateBest(best, n)
                      /\ elapsed' = Clock(elapsed, dt)
                /\ UNCHANGED search_state
    /\ IterationFrame

\* the Moves tabu search may make: not tabu, or better than the best ever
Admissible ==
    LET tabu == TabuShapes(search_state.tabu)
        aspired == SolutionCost(best)
    IN  {n \in Neighbors(data, working) :
            Shape(n) \notin tabu \/ SolutionCost(n) < aspired}

\* Tabu search: the best admissible Move, improving or not, and its reversal
\* becomes tabu; when every Move is tabu the list only ages
TabuIteration ==
    /\ Searching
    /\ metaheuristic \in TabuSearch
    /\ LET admissible == Admissible
       IN  IF admissible = {}
           THEN /\ search_state' = [search_state EXCEPT !.tabu = Age(@)]
                /\ \E dt \in 1..MaxTick : elapsed' = Clock(elapsed, dt)
                /\ UNCHANGED <<working, best>>
           ELSE /\ \E n \in Cheapest(admissible), dt \in 1..MaxTick :
                      /\ working' = n
                      /\ best' = UpdateBest(best, n)
                      /\ elapsed' = Clock(elapsed, dt)
                /\ search_state' =
                      [search_state EXCEPT !.tabu =
                          Append(Age(@), [shape |-> Shape(working),
                                          ttl |-> TabuTenure])]
    /\ IterationFrame

\* Simulated annealing: a Move is drawn; an improving one is accepted, a
\* worsening one with probability exp(-delta / temperature); it cools down
AnnealStep ==
    /\ Searching
    /\ metaheuristic \in SimulatedAnnealing
    /\ search_state.temperature >= TemperatureFloor
    /\ \E n \in Neighbors(data, working) \cup {working}, accept \in BOOLEAN :
          LET w == IF SolutionCost(n) <= SolutionCost(working) \/ accept
                   THEN n ELSE working
          IN  /\ working' = w
              /\ best' = UpdateBest(best, w)
    /\ search_state' = [search_state EXCEPT !.temperature = @ \div 2]
    /\ \E dt \in 1..MaxTick : elapsed' = Clock(elapsed, dt)
    /\ IterationFrame

\* Simulated annealing: the temperature fell below the floor
AnnealStop ==
    /\ Searching
    /\ metaheuristic \in SimulatedAnnealing
    /\ search_state.temperature < TemperatureFloor
    /\ Returns(Some(best),
               IF SolutionCost(best) < search_state.initial_cost
               THEN "Improved" ELSE "Converged")

----------------------------------------------------------------------------
(* solve_vrp, lines 167-180: the routes are read off the solution.         *)

\* solution.Value(routing.NextVar(index)): the index after index on the
\* route it is on, the vehicle's end index after its last customer
NextVar(d, sol, i) ==
    LET on(v) == \/ i = Start(d, v)
                 \/ \E p \in Positions(sol, v) : NodeToIndex(d, sol[v + 1].nodes[p]) = i
        v     == CHOOSE w \in Vehicles(d) : on(w)
        nodes == sol[v + 1].nodes
        p     == IF i = Start(d, v) THEN 1
                 ELSE CHOOSE q \in Positions(sol, v) : NodeToIndex(d, nodes[q]) = i
    IN  IF p + 1 = Len(nodes) THEN End(d, v) ELSE NodeToIndex(d, nodes[p + 1])

\* solution.ObjectiveValue(): the Solution's cost, the sum of its Routes'
ObjectiveValue(sol) == SolutionCost(sol)

extractFrame ==
    UNCHANGED <<data, first_solution_strategy, metaheuristic, unrouted, working,
                best, search_state, elapsed, ls_state, solution, mainVars>>

\* lines 168-169: a solution was found
IfSolution ==
    /\ pc = "if_solution"
    /\ solution # None
    /\ routes' = <<>>
    /\ vehicle_id' = 0
    /\ pc' = "for_vehicle"
    /\ UNCHANGED <<index, route, result>>
    /\ extractFrame

\* lines 170-172: the next vehicle's route is started
ForVehicle ==
    /\ pc = "for_vehicle"
    /\ vehicle_id < data.num_vehicles
    /\ route' = <<>>
    /\ index' = Start(data, vehicle_id)
    /\ pc' = "while_not_end"
    /\ UNCHANGED <<vehicle_id, routes, result>>
    /\ extractFrame

\* lines 173-177 with an if in the place of the while: one node is appended,
\* then the node after it closes the route
IfNotEnd ==
    /\ pc = "while_not_end"
    /\ ~IsEnd(data, index)
    /\ index' = NextVar(data, solution[1], index)
    /\ route' = Append(Append(route, IndexToNode(data, index)),
                       IndexToNode(data, index'))
    /\ routes' = Append(routes, route')
    /\ vehicle_id' = vehicle_id + 1
    /\ pc' = "for_vehicle"
    /\ UNCHANGED result
    /\ extractFrame

\* lines 173-175: the body of the while loop
WhileNotEnd ==
    /\ pc = "while_not_end"
    /\ ~IsEnd(data, index)
    /\ route' = Append(route, IndexToNode(data, index))
    /\ index' = NextVar(data, solution[1], index)
    /\ UNCHANGED <<pc, vehicle_id, routes, result>>
    /\ extractFrame

\* lines 176-177, with the end node left out of the route
RouteDoneWithoutEnd ==
    /\ pc = "while_not_end"
    /\ IsEnd(data, index)
    /\ route' = route
    /\ routes' = Append(routes, route')
    /\ vehicle_id' = vehicle_id + 1
    /\ pc' = "for_vehicle"
    /\ UNCHANGED <<index, result>>
    /\ extractFrame

\* lines 176-177: the end node closes the route, the route joins the routes
RouteDone ==
    /\ pc = "while_not_end"
    /\ IsEnd(data, index)
    /\ route' = Append(route, IndexToNode(data, index))
    /\ routes' = Append(routes, route')
    /\ vehicle_id' = vehicle_id + 1
    /\ pc' = "for_vehicle"
    /\ UNCHANGED <<index, result>>
    /\ extractFrame

\* line 178
ReturnRoutes ==
    /\ pc = "for_vehicle"
    /\ vehicle_id >= data.num_vehicles
    /\ result' = Some([routes         |-> Some(routes),
                       distance       |-> Some(ObjectiveValue(solution[1])),
                       execution_time |-> elapsed])
    /\ pc' = "returned"
    /\ UNCHANGED extractVars
    /\ extractFrame

\* line 180 with an empty list of routes in the place of None
ReturnEmptyRoutes ==
    /\ pc = "if_solution"
    /\ solution = None
    /\ result' = Some([routes |-> Some(<<>>), distance |-> None,
                       execution_time |-> elapsed])
    /\ pc' = "returned"
    /\ UNCHANGED extractVars
    /\ extractFrame

\* lines 179-180: no solution
ReturnFailure ==
    /\ pc = "if_solution"
    /\ solution = None
    /\ result' = Some([routes |-> None, distance |-> None,
                       execution_time |-> elapsed])
    /\ pc' = "returned"
    /\ UNCHANGED extractVars
    /\ extractFrame

Next ==
    \/ ConstructInsert \/ ConstructFail \/ ConstructDone
    \/ TimeOut
    \/ GreedyIteration \/ GuidedIteration \/ TabuIteration
    \/ AnnealStep \/ AnnealStop
    \/ IfSolution \/ ForVehicle \/ WhileNotEnd \/ RouteDone
    \/ ReturnRoutes \/ ReturnFailure

Spec == Init /\ [][Next]_vars

\* the instances of the runs followed to their end: two customers of equal
\* demand, two vehicles of equal capacity, the asymmetric matrix
LiveInstances ==
    {d \in Instances(2, 2) : /\ d.num_vehicles = 2
                             /\ d.distance_matrix = AsymmetricMatrix(d.locations)
                             /\ d.demands[2] = d.demands[3]
                             /\ d.vehicle_capacities[1] = d.vehicle_capacities[2]}
InitLive == Entered(LiveInstances)
\* the run is one thread that keeps running until solve_vrp returns
SpecLive == InitLive /\ [][Next]_vars /\ WF_vars(Next)

----------------------------------------------------------------------------
(* main, lines 183-249: the sweep over the pairs of strategies.  The call  *)
(* of SolveWithParameters is taken by its outcome: no solution, or any     *)
(* Solution of the instance.                                               *)

\* lines 198-211, in the order of the dict
strategies ==
    <<"AUTOMATIC", "PATH_CHEAPEST_ARC", "PATH_MOST_CONSTRAINED_ARC", "SAVINGS",
      "CHRISTOFIDES", "PARALLEL_CHEAPEST_INSERTION", "SEQUENTIAL_CHEAPEST_INSERTION",
      "LOCAL_CHEAPEST_INSERTION", "LOCAL_CHEAPEST_COST_INSERTION",
      "GLOBAL_CHEAPEST_ARC", "LOCAL_CHEAPEST_ARC", "FIRST_UNBOUND_MIN_VALUE">>

\* lines 212-219, in the order of the dict
metaheuristics ==
    <<"AUTOMATIC", "GREEDY_DESCENT", "GUIDED_LOCAL_SEARCH", "SIMULATED_ANNEALING",
      "TABU_SEARCH", "GENERIC_TABU_SEARCH">>

\* the pairs in the order the two nested loops visit them, counted from 0
NumPairs == NumStrategies * NumMetaheuristics
StrategyOf(k) == strategies[(k \div NumMetaheuristics) + 1]
MetaheuristicOf(k) == metaheuristics[(k % NumMetaheuristics) + 1]

\* Python's truth value of routes: None and the empty list are false
Truthy(opt) == opt # None /\ Len(opt[1]) > 0

\* every complete Solution Construction can build
RECURSIVE Build(_, _, _)
Build(d, sol, U) ==
    IF U = {} THEN {sol}
    ELSE UNION {Build(d, Insert(d, sol, ins), U \ {ins[1]}) : ins \in Insertions(d, sol, U)}

\* the instance of the sweep: two vehicles of capacity 1, two customers of
\* demand 1
SweepInstance ==
    Instance(SubSeq(GridLocations, 1, 3), AsymmetricMatrix(SubSeq(GridLocations, 1, 3)),
             <<1, 1>>, <<1, 1>>)

\* the instance the routes are read off: MaxCustomers customers of demand 1,
\* MaxVehicles vehicles of capacity MaxCapacity
ExtractInstance ==
    LET locations == SubSeq(GridLocations, 1, MaxCustomers + 1)
    IN  Instance(locations, AsymmetricMatrix(locations),
                 [c \in 1..MaxCustomers |-> 1], [v \in 1..MaxVehicles |-> MaxCapacity])

\* solve_vrp at line 168: SolveWithParameters has returned no solution, or
\* any Solution of the instance
InitExtract ==
    /\ pc = "if_solution"
    /\ data = ExtractInstance
    /\ first_solution_strategy = strategies[1]
    /\ metaheuristic = metaheuristics[1]
    /\ solution \in {None} \cup {Some(sol) : sol \in Build(ExtractInstance,
                                                           EmptySolution(ExtractInstance),
                                                           Customers(ExtractInstance))}
    /\ elapsed = time_limit
    /\ unrouted = {} /\ working = <<>> /\ best = <<>>
    /\ search_state = <<>> /\ ls_state = "Idle"
    /\ vehicle_id = 0 /\ index = 0 /\ route = <<>> /\ routes = <<>>
    /\ result = None
    /\ pair = 0 /\ results = <<>>

NextExtract ==
    \/ IfSolution \/ ForVehicle \/ WhileNotEnd \/ RouteDone
    \/ ReturnRoutes \/ ReturnFailure

SpecExtract == InitExtract /\ [][NextExtract]_vars

\* main after line 221: data created, results empty, before the first pair
InitSweep ==
    /\ pc = "main_loop"
    /\ data = SweepInstance
    /\ IdleSolve
    /\ pair = 0 /\ results = <<>>

\* lines 223-226 and 131-165: the next pair's call of solve_vrp, up to the
\* return of SolveWithParameters
CallSolve ==
    /\ pc = "main_loop"
    /\ pair < NumPairs
    /\ first_solution_strategy' = StrategyOf(pair)
    /\ metaheuristic' = MetaheuristicOf(pair)
    /\ \E found \in {None} \cup {Some(sol) : sol \in Build(data, EmptySolution(data),
                                                          Customers(data))} :
          solution' = found
    /\ elapsed' = time_limit
    /\ pc' = "if_solution"
    /\ UNCHANGED <<data, unrouted, working, best, search_state, ls_state,
                   extractVars, result, mainVars>>

\* lines 227-244 with the sweep given up at a failed run
RecordOrAbort ==
    /\ pc = "returned"
    /\ IF Truthy(result[1].routes)
       THEN /\ results' = Append(results,
                    [Strategy       |-> first_solution_strategy,
                     Metaheuristic  |-> metaheuristic,
                     Distance       |-> result[1].distance,
                     Execution_Time |-> result[1].execution_time])
            /\ pc' = "main_loop"
            /\ pair' = pair + 1
       ELSE /\ results' = results
            /\ pc' = "exported"
            /\ pair' = pair
    /\ first_solution_strategy' = "" /\ metaheuristic' = ""
    /\ solution' = None /\ elapsed' = 0
    /\ vehicle_id' = 0 /\ index' = 0 /\ route' = <<>> /\ routes' = <<>>
    /\ result' = None
    /\ UNCHANGED <<data, unrouted, working, best, search_state, ls_state>>

\* lines 227-244 with plot_graph dropping the depot from the locations
RecordAndTrim ==
    /\ pc = "returned"
    /\ results' = Append(results,
            [Strategy       |-> first_solution_strategy,
             Metaheuristic  |-> metaheuristic,
             Distance       |-> IF Truthy(result[1].routes)
                                THEN result[1].distance ELSE None,
             Execution_Time |-> result[1].execution_time])
    /\ data' = IF Truthy(result[1].routes)
               THEN [data EXCEPT !.locations = Tail(@)] ELSE data
    /\ pair' = pair + 1
    /\ pc' = "main_loop"
    /\ first_solution_strategy' = "" /\ metaheuristic' = ""
    /\ solution' = None /\ elapsed' = 0
    /\ vehicle_id' = 0 /\ index' = 0 /\ route' = <<>> /\ routes' = <<>>
    /\ result' = None
    /\ UNCHANGED <<unrouted, working, best, search_state, ls_state>>

\* lines 226-244: solve_vrp's result is unpacked; a run with routes is
\* plotted and recorded with its distance, a failed one with Distance None;
\* solve_vrp's locals are gone
Record ==
    /\ pc = "returned"
    /\ results' = Append(results,
            [Strategy       |-> first_solution_strategy,
             Metaheuristic  |-> metaheuristic,
             Distance       |-> IF Truthy(result[1].routes)
                                THEN result[1].distance ELSE None,
             Execution_Time |-> result[1].execution_time])
    /\ pair' = pair + 1
    /\ pc' = "main_loop"
    /\ first_solution_strategy' = "" /\ metaheuristic' = ""
    /\ solution' = None /\ elapsed' = 0
    /\ vehicle_id' = 0 /\ index' = 0 /\ route' = <<>> /\ routes' = <<>>
    /\ result' = None
    /\ UNCHANGED <<data, unrouted, working, best, search_state, ls_state>>

\* lines 246-249: the results are exported
Export ==
    /\ pc = "main_loop"
    /\ pair >= NumPairs
    /\ pc' = "exported"
    /\ UNCHANGED <<data, solveVars, mainVars>>

NextSweep ==
    \/ CallSolve
    \/ IfSolution \/ ForVehicle \/ WhileNotEnd \/ RouteDone
    \/ ReturnRoutes \/ ReturnFailure
    \/ Record \/ Export

SpecSweep == InitSweep /\ [][NextSweep]_vars

----------------------------------------------------------------------------
(* What the claims speak of, read off the instance itself.                 *)

\* the distance of a route: distance_matrix[a][b] over its consecutive nodes
RouteDistance(route_) ==
    LET arc(k) == data.distance_matrix[route_[k] + 1][route_[k + 1] + 1]
    IN  IF Len(route_) < 2 THEN 0 ELSE SumTo(arc, Len(route_) - 1)

\* the demand of the nodes of a route
RouteDemand(route_) ==
    LET at(k) == data.demands[route_[k] + 1] IN SumTo(at, Len(route_))

\* the distance of a list of routes
TotalDistance(routes_) ==
    LET at(v) == RouteDistance(routes_[v]) IN SumTo(at, Len(routes_))

TotalDemand == SumSeq(data.demands)
TotalCapacity == SumSeq(data.vehicle_capacities)

\* solve_vrp returned
Returned == pc = "returned"
\* solve_vrp returned routes
Succeeded == Returned /\ result[1].routes # None
ReturnedRoutes == result[1].routes[1]

\* how often node c is on the routes
Occurrences(routes_, c) ==
    Cardinality({vk \in UNION {{<<v, k>> : k \in 1..Len(routes_[v])} : v \in 1..Len(routes_)} :
                    routes_[vk[1]][vk[2]] = c})

\* every route within the capacity of its own vehicle
WithinCapacity(routes_) ==
    \A v \in 1..Len(routes_) : RouteDemand(routes_[v]) <= data.vehicle_capacities[v]

\* the states Local Search ends in
FinalStates == {"Improved", "TimedOut", "Converged"}

----------------------------------------------------------------------------
(* C1: the routes solve_vrp returns partition the customers: there is one  *)
(* route per vehicle and every customer 1..N-1 is on exactly one route,    *)
(* exactly once; while the routes are read out no customer is read twice.  *)
C1_RoutesPartitionCustomers ==
    /\ Succeeded =>
          /\ Len(ReturnedRoutes) = data.num_vehicles
          /\ \A c \in (0..(Len(data.demands) - 1)) \ {data.depot} :
                Occurrences(ReturnedRoutes, c) = 1
    /\ pc = "while_not_end" =>
          \A c \in (0..(Len(data.demands) - 1)) \ {data.depot} :
              Occurrences(Append(routes, route), c) <= 1

\* three customers on two vehicles, both used
C1_Witness ==
    /\ Succeeded
    /\ Len(data.demands) = 4
    /\ data.num_vehicles = 2
    /\ \A v \in 1..Len(ReturnedRoutes) : Len(ReturnedRoutes[v]) >= 3

(* C2: no route ever carries more than its own vehicle's capacity: not the *)
(* working Solution during Construction and the search, not the best one,  *)
(* not the solution handed back, not the routes solve_vrp returns.         *)
C2_CapacityRespected ==
    /\ pc \in {"construct", "search"} => WithinCapacity(Shape(working))
    /\ pc = "search" => WithinCapacity(Shape(best))
    /\ solution # None => WithinCapacity(Shape(solution[1]))
    /\ Succeeded => WithinCapacity(ReturnedRoutes)

\* two vehicles of capacity 1, two customers of demand 1: one customer each
C2_Witness ==
    /\ Succeeded
    /\ data.vehicle_capacities = <<1, 1>>
    /\ data.demands = <<0, 1, 1>>
    /\ \A v \in 1..2 : Len(ReturnedRoutes[v]) = 3

(* C3: every returned route, one per vehicle, starts and ends at the depot *)
(* and has the depot nowhere else, so an unused vehicle's is <<depot,      *)
(* depot>>; the while loop of the extraction appends at most every node    *)
(* once before it reaches the end index.                                   *)
C3_RoutesStartAndEndAtDepot ==
    /\ Succeeded =>
          /\ Len(ReturnedRoutes) = data.num_vehicles
          /\ \A v \in 1..Len(ReturnedRoutes) :
                LET r == ReturnedRoutes[v]
                IN  /\ Len(r) >= 2
                    /\ r[1] = data.depot
                    /\ r[Len(r)] = data.depot
                    /\ \A k \in 2..(Len(r) - 1) : r[k] # data.depot
    /\ pc = "while_not_end" =>
          /\ Len(route) <= Len(data.demands)
          /\ \A k \in 2..Len(route) : route[k] # data.depot

\* the first vehicle unused, the second with every customer
C3_Witness ==
    /\ Succeeded
    /\ ReturnedRoutes[1] = <<data.depot, data.depot>>
    /\ Len(ReturnedRoutes[2]) = MaxCustomers + 2

(* C4: the objective value solve_vrp returns is the sum of                 *)
(* distance_matrix[a][b] over the consecutive nodes a, b of the returned   *)
(* routes; during the search, penalties or not, the value the best         *)
(* Solution would be reported with is its distance.                        *)
C4_ObjectiveIsRouteDistance ==
    /\ Succeeded => result[1].distance = Some(TotalDistance(ReturnedRoutes))
    /\ pc = "search" => ObjectiveValue(best) = TotalDistance(Shape(best))
    /\ solution # None => ObjectiveValue(solution[1]) = TotalDistance(Shape(solution[1]))

\* guided local search, cut short, on an asymmetric matrix
C4_Witness ==
    /\ Succeeded
    /\ metaheuristic = "GUIDED_LOCAL_SEARCH"
    /\ ls_state = "TimedOut"
    /\ data.distance_matrix[1][2] # data.distance_matrix[2][1]
    /\ Len(data.demands) = 4
    /\ result[1].distance[1] > 0

(* C5: when the total demand exceeds the total capacity of the fleet,      *)
(* no solution is ever found: the run never enters the search or the       *)
(* extraction, it goes on to the return, and what it returns is the        *)
(* failure value: no routes, no objective, the elapsed time.               *)
C5_InfeasibleInstanceFails ==
    TotalDemand > TotalCapacity =>
        /\ solution = None
        /\ pc \in {"construct", "if_solution", "returned"}
        /\ ~Returned => ENABLED Next
        /\ Returned =>
              /\ result # None
              /\ result[1].routes = None
              /\ result[1].distance = None
              /\ result[1].execution_time = elapsed
              /\ elapsed >= 0

\* such an instance, returned from
C5_Witness ==
    /\ Returned
    /\ TotalDemand > TotalCapacity
    /\ result[1].routes = None

(* C7: during the search the best-so-far Solution never gets costlier,     *)
(* it costs no more than the working Solution and than what Construction   *)
(* built, and the Solution handed back at the end is the best one.         *)
C7_BestNeverWorsens ==
    /\ [](pc = "search" =>
            /\ TotalDistance(Shape(best)) <= search_state.initial_cost
            /\ TotalDistance(Shape(best)) <= TotalDistance(Shape(working)))
    /\ [][pc = "search" =>
            /\ pc' = "search" =>
                  TotalDistance(Shape(best')) <= TotalDistance(Shape(best))
            /\ pc' # "search" =>
                  /\ solution' # None
                  /\ TotalDistance(Shape(solution'[1])) <= TotalDistance(Shape(best))
                  /\ TotalDistance(Shape(solution'[1])) <= search_state.initial_cost]_vars

\* tabu search after a non-improving Move: the working Solution is costlier
\* than the best one, which is cheaper than the constructed one
C7_Witness ==
    /\ pc = "search"
    /\ metaheuristic = "TABU_SEARCH"
    /\ TotalDistance(Shape(working)) > TotalDistance(Shape(best))
    /\ TotalDistance(Shape(best)) < search_state.initial_cost

(* C9: every run of solve_vrp returns.  The search is Running exactly      *)
(* while it lasts and ends in one of Improved, TimedOut, Converged, which  *)
(* then stays; it ends TimedOut at the first check at or past the time     *)
(* limit and otherwise before it; a run that timed out returns routes.     *)
C9_RunTerminates ==
    /\ <>Returned
    /\ [](/\ pc = "search" <=> ls_state = "Running"
          /\ pc \in {"construct"} => ls_state = "Idle"
          /\ solution # None => ls_state \in FinalStates
          /\ pc = "search" => elapsed < time_limit + MaxTick
          /\ ls_state = "TimedOut" => elapsed >= time_limit
          /\ ls_state \in {"Improved", "Converged"} => elapsed < time_limit
          /\ Returned /\ ls_state \in FinalStates =>
                /\ Succeeded
                /\ WithinCapacity(ReturnedRoutes)
                /\ Len(ReturnedRoutes) = data.num_vehicles)
    /\ [][/\ ls_state \in FinalStates => ls_state' = ls_state
          /\ pc = "search" /\ elapsed >= time_limit => ls_state' = "TimedOut"]_vars

\* a run cut short past the time limit that returned routes
C9_Witness ==
    /\ Succeeded
    /\ ls_state = "TimedOut"
    /\ elapsed > time_limit

(* C6: the sweep evaluates every pair once, in the order of the nested     *)
(* loops, and records each: record k is keyed by pair k, its Distance is   *)
(* None exactly when that run found no solution, and whatever the runs     *)
(* did the sweep goes on until every pair is recorded.                     *)
C6_SweepRecordsEveryPair ==
    /\ [](/\ Len(results) = pair
          /\ pair <= NumStrategies * NumMetaheuristics
          /\ \A k \in 1..Len(results) :
                /\ results[k].Strategy = strategies[((k - 1) \div NumMetaheuristics) + 1]
                /\ results[k].Metaheuristic =
                       metaheuristics[((k - 1) % NumMetaheuristics) + 1]
          /\ pc = "exported" => pair = NumStrategies * NumMetaheuristics
          /\ pc # "exported" => ENABLED NextSweep)
    /\ [][pc = "returned" =>
            /\ Len(results') = Len(results) + 1
            /\ SubSeq(results', 1, Len(results)) = results
            /\ results'[Len(results')].Distance = None <=> solution = None]_vars

\* a sweep that ended after a failed first run and a successful second one
C6_Witness ==
    /\ pc = "exported"
    /\ Len(results) = NumStrategies * NumMetaheuristics
    /\ results[1].Distance = None
    /\ results[2].Distance # None

(* C8: nothing ever changes the Problem Model: every step of solve_vrp and *)
(* of the sweep leaves data as create_data_model returned it.              *)
C8_DataNeverMutated ==
    /\ [](data = SweepInstance)
    /\ [][data' = data]_vars

\* the sweep is over and a run with routes was plotted
C8_Witness ==
    /\ pc = "exported"
    /\ Len(results) = NumStrategies * NumMetaheuristics
    /\ \E k \in 1..Len(results) : results[k].Distance # None
    /\ data = SweepInstance

----------------------------------------------------------------------------
====
